---------------------------- MODULE Spec2Model ----------------------------
(***************************************************************************)
(* Model of the PDF region extractor (src/app.py): the viewer label with   *)
(* its rubber-band selection, the main window with its page navigation,    *)
(* the render cycle with its temporary PNG, and the SVG export with its    *)
(* pixel -> point conversion.                                              *)
(*                                                                         *)
(* Each action is one Qt event handler, run to completion (the program is  *)
(* single threaded).  The outcome of every subprocess call and of every    *)
(* dialog is an input drawn with \E.                                       *)
(***************************************************************************)
EXTENDS Integers, Sequences, FiniteSets, TLC

\* ------------------------------------------------------------------------
\* Bounds and program constants
\* ------------------------------------------------------------------------

\* Page count of the longest document of the model ("b.pdf").
MaxPages == 3

\* PREVIEW_DPI, the resolution handed to pdftoppm.
PREVIEW_DPI == 150

\* PDF points per inch.
PointsPerInch == 72

\* Python floats are IEEE-754 doubles: 53 significant bits.
MantBits == 53

\* The model keeps a significand in limbs of LimbBits bits, least
\* significant limb first; (MantBits - 1) is a multiple of LimbBits.
LimbBits == 13

\* ------------------------------------------------------------------------
\* Double precision arithmetic, as far as save_svg uses it:
\*   scale = page_pt / pixmap_px ; pt = sel_px * scale ; int(pt)
\* A float is [m |-> limbs, e |-> k], of value m * 2^k.
\* ------------------------------------------------------------------------

RECURSIVE Pow2(_)
Pow2(n) == IF n <= 0 THEN 1 ELSE 2 * Pow2(n - 1)

Base == Pow2(LimbBits)

Abs(x) == IF x < 0 THEN -x ELSE x

Sign(x) == IF x < 0 THEN -1 ELSE 1

\* n/d scaled by a power of two into [1, 2): n/d = (r.n / r.d) * 2^r.e
RECURSIVE Normalise(_, _, _)
Normalise(n, d, e) ==
    IF n < d THEN Normalise(2 * n, d, e - 1)
    ELSE IF n >= 2 * d THEN Normalise(n, 2 * d, e + 1)
    ELSE [n |-> n, d |-> d, e |-> e]

\* k limbs of the fraction r/d (r < d), least significant limb first,
\* followed by the remainder that is left.
RECURSIVE FracLimbs(_, _, _)
FracLimbs(r, d, k) ==
    IF k = 0 THEN <<r>>
    ELSE FracLimbs((r * Base) % d, d, k - 1) \o <<(r * Base) \div d>>

\* limbs + v, for 0 <= v <= Base, carried upwards
RECURSIVE AddLimbs(_, _)
AddLimbs(limbs, v) ==
    IF v = 0 THEN limbs
    ELSE IF limbs = <<>> THEN <<v>>
    ELSE <<(limbs[1] + v) % Base>> \o AddLimbs(Tail(limbs), (limbs[1] + v) \div Base)

\* limbs * x + carry, for 0 < x < Base
RECURSIVE MulLimbs(_, _, _)
MulLimbs(limbs, x, carry) ==
    IF limbs = <<>> THEN (IF carry = 0 THEN <<>> ELSE <<carry>>)
    ELSE <<(limbs[1] * x + carry) % Base>>
         \o MulLimbs(Tail(limbs), x, (limbs[1] * x + carry) \div Base)

RECURSIVE BitLen(_)
BitLen(n) == IF n = 0 THEN 0 ELSE 1 + BitLen(n \div 2)

LimbsBitLen(limbs) ==
    IF limbs = <<>> THEN 0
    ELSE LimbBits * (Len(limbs) - 1) + BitLen(limbs[Len(limbs)])

\* Round a significand of at most MantBits + LimbBits bits to MantBits bits,
\* to nearest, ties to even (the dropped bits become zero).
RoundNearestEven(limbs) ==
    LET s == LimbsBitLen(limbs) - MantBits
    IN IF s <= 0 THEN limbs
       ELSE LET low  == limbs[1] % Pow2(s)
                half == Pow2(s - 1)
                lsb  == IF s < LimbBits THEN (limbs[1] \div Pow2(s)) % 2
                        ELSE limbs[2] % 2
                up   == low > half \/ (low = half /\ lsb = 1)
                cut  == <<limbs[1] - low>> \o Tail(limbs)
            IN IF up THEN AddLimbs(cut, Pow2(s)) ELSE cut

FloatZero == [m |-> <<>>, e |-> 0]

\* float(n) / d for integers n >= 0 and d > 0: the correctly rounded quotient
FloatDiv(n, d) ==
    IF n = 0 THEN FloatZero
    ELSE LET q    == Normalise(n, d, 0)
             k    == (MantBits - 1) \div LimbBits
             f    == FracLimbs(q.n - q.d, q.d, k)
             rem  == f[1]
             sig  == Tail(f) \o <<1>>
             up   == 2 * rem > q.d \/ (2 * rem = q.d /\ sig[1] % 2 = 1)
         IN [m |-> IF up THEN AddLimbs(sig, 1) ELSE sig,
             e |-> q.e - (MantBits - 1)]

\* x * f for an integer 0 <= x < Base: the correctly rounded product
FloatMulInt(x, f) ==
    IF x = 0 \/ f.m = <<>> THEN FloatZero
    ELSE [m |-> RoundNearestEven(MulLimbs(f.m, x, 0)), e |-> f.e]

\* The integer a limb sequence stands for
RECURSIVE LimbsToInt(_)
LimbsToInt(limbs) ==
    IF limbs = <<>> THEN 0 ELSE limbs[1] + Base * LimbsToInt(Tail(limbs))

\* limbs \div 2^t, for 0 <= t < LimbBits
LimbsShiftedToInt(limbs, t) ==
    (limbs[1] \div Pow2(t)) + Pow2(LimbBits - t) * LimbsToInt(Tail(limbs))

\* int(f) for f >= 0: the integer part
FloatToInt(f) ==
    IF f.m = <<>> THEN 0
    ELSE IF f.e >= 0 THEN LimbsToInt(f.m) * Pow2(f.e)
    ELSE LET sh == -f.e
             q  == sh \div LimbBits
             t  == sh % LimbBits
         IN IF q >= Len(f.m) THEN 0
            ELSE LimbsShiftedToInt(SubSeq(f.m, q + 1, Len(f.m)), t)

\* A conversion that forgets the scale factor.
ToPoints_unscaled(px, pt, size) == px

\* int(px * (pt / size)): lines 317-324 and 333-336 for one coordinate.
\* pt >= 0 is a page dimension in points, size > 0 a pixmap dimension.
ToPoints(px, pt, size) ==
    Sign(px) * FloatToInt(FloatMulInt(Abs(px), FloatDiv(pt, size)))

\* ------------------------------------------------------------------------
\* QRect / QPoint, as the viewer uses them.  A QRect keeps two corners
\* (x1, y1) and (x2, y2), both inside the rectangle.
\* ------------------------------------------------------------------------

Point(x, y) == [x |-> x, y |-> y]

\* QPoint(): the origin
NullPoint == Point(0, 0)

Rect(x1, y1, x2, y2) == [x1 |-> x1, y1 |-> y1, x2 |-> x2, y2 |-> y2]

\* QRect(): the null rectangle
NullRect == Rect(0, 0, -1, -1)

\* QRect(topLeft, QSize()): a default QSize is (-1, -1)
RectOfInvalidSize(p) == Rect(p.x, p.y, p.x - 2, p.y - 2)

\* QRect(topLeft, bottomRight)
RectOfCorners(p, q) == Rect(p.x, p.y, q.x, q.y)

RectWidth(r) == r.x2 - r.x1 + 1

RectHeight(r) == r.y2 - r.y1 + 1

RectIsNull(r) == r.x2 = r.x1 - 1 /\ r.y2 = r.y1 - 1

\* QRect.normalized(): corners swapped where width or height is negative
Normalized(r) ==
    [x1 |-> IF r.x2 < r.x1 THEN r.x2 + 1 ELSE r.x1,
     x2 |-> IF r.x2 < r.x1 THEN r.x1 - 1 ELSE r.x2,
     y1 |-> IF r.y2 < r.y1 THEN r.y2 + 1 ELSE r.y1,
     y2 |-> IF r.y2 < r.y1 THEN r.y1 - 1 ELSE r.y2]

\* ------------------------------------------------------------------------
\* The environment: documents, and what the Poppler tools say about them
\* ------------------------------------------------------------------------

\* self.pdf_path = None
None == "None"

Docs == {"b.pdf", "zero.pdf", "nopages.pdf", "titled.pdf", "broken.pdf"}

\* The number of pages a document really has (an unreadable one has none).
PageCount(path) ==
    CASE path = "b.pdf"       -> MaxPages
      [] path = "zero.pdf"    -> 0
      [] path = "nopages.pdf" -> 1
      [] path = "titled.pdf"  -> 2
      [] OTHER                -> 0

\* The size in points of a page (1-based): pages of a document may differ.
PageSizePts(path, page) ==
    IF path = "b.pdf" /\ page = 2 THEN <<1022, 792>> ELSE <<612, 792>>

\* pdfinfo exits non-zero on a document it cannot read.
PdfInfoFails(path) == path = "broken.pdf"

Number(n) == [int |-> TRUE, val |-> n]

Text == [int |-> FALSE, val |-> 0]

\* For every stdout line of `pdfinfo <path>` that contains "Pages:", in
\* order, the field line.split(":")[1].strip().  The report of titled.pdf
\* holds "Title: Yellow Pages: 2024" before its "Pages: 2" line.
PagesFields(path) ==
    CASE path = "b.pdf"       -> <<Number(PageCount(path))>>
      [] path = "zero.pdf"    -> <<Number(0)>>
      [] path = "titled.pdf"  -> <<Text, Number(PageCount(path))>>
      [] OTHER                -> <<>>

\* Pixels of a dimension in points rendered at PREVIEW_DPI.
RasterPx(pt) == (2 * pt * PREVIEW_DPI + PointsPerInch) \div (2 * PointsPerInch)

\* What the size query of a page can give: its size line, a report
\* without one, or a failed call.
SizeOutcomes(path, page) ==
    IF page \in 1..PageCount(path) THEN {"match", "nomatch", "fail"} ELSE {"fail"}

\* What the call of pdftoppm can do: write the PNG, exit 0 without one, or
\* raise (the tool failed or is missing) with or without a partial PNG left
\* behind.
PpmOutcomes(path, page) ==
    IF page \in 1..PageCount(path)
    THEN {"ok", "nofile", "error", "error_partial"}
    ELSE {"error", "error_partial"}

LoadOutcomes == {"image", "unreadable"}

ToolOutcomes == {"run", "missing"}

CairoOutcomes == {"ok", "warnings", "error", "missing"}

\* Pointer positions the user clicks and drags through.
Points == {Point(100, 100), Point(200, 200), Point(2228, 200)}

Buttons == {"left", "right"}

\* What the save dialog returns ("" when cancelled).
OutputPaths == {"", "out.svg"}

\* ------------------------------------------------------------------------
\* State
\* ------------------------------------------------------------------------

VARIABLES
    \* MainWindow
    pdf_path, current_page, total_pages, page_size_points,
    btn_prev, btn_next, btn_save,
    \* the viewer label's content: a pixmap or a text
    pixmap, viewer_text,
    \* PDFViewerLabel
    selection_rect, start_point, is_selecting,
    \* the working directory's files
    files,
    \* what the last handler was and did: whether it called render_page and
    \* how that ended, what its save dialog returned, the pdftocairo command
    \* it ran, the status message it showed
    handler, rendered, output_path, command, status

win_vars == <<pdf_path, current_page, total_pages, page_size_points,
              btn_prev, btn_next, btn_save, pixmap, viewer_text, files>>

sel_vars == <<selection_rect, start_point, is_selecting>>

vars == <<win_vars, sel_vars, handler, rendered, output_path, command, status>>

temp_image_base == "pdf_extractor_temp_page"

\* The file pdftoppm writes for a page (1-based): "<base>-<page>.png"
TempPng(page) == [base |-> temp_image_base, page |-> page, ext |-> ".png"]

\* QPixmap(): no image
NullPixmap == [null |-> TRUE, w |-> 0, h |-> 0, path |-> None, page |-> 0]

\* The image of a rendered page; path and page say what it depicts.
PagePixmap(path, page) ==
    [null |-> FALSE,
     w |-> RasterPx(PageSizePts(path, page)[1]),
     h |-> RasterPx(PageSizePts(path, page)[2]),
     path |-> path, page |-> page]

NoCommand == <<>>

\* No save dialog was shown.
NoDialog == "n/a"

\* The main window's fields as one record, for the methods below.
Window ==
    [pdf_path |-> pdf_path, current_page |-> current_page,
     total_pages |-> total_pages, page_size_points |-> page_size_points,
     btn_prev |-> btn_prev, btn_next |-> btn_next, btn_save |-> btn_save,
     pixmap |-> pixmap, viewer_text |-> viewer_text,
     files |-> files, rendered |-> "none"]

Becomes(s) ==
    /\ pdf_path' = s.pdf_path
    /\ current_page' = s.current_page
    /\ total_pages' = s.total_pages
    /\ page_size_points' = s.page_size_points
    /\ btn_prev' = s.btn_prev
    /\ btn_next' = s.btn_next
    /\ btn_save' = s.btn_save
    /\ pixmap' = s.pixmap
    /\ viewer_text' = s.viewer_text
    /\ files' = s.files
    /\ rendered' = s.rendered

Init ==
    /\ pdf_path = None
    /\ current_page = 0
    /\ total_pages = 0
    /\ page_size_points = <<0, 0>>
    /\ btn_prev = FALSE
    /\ btn_next = FALSE
    /\ btn_save = FALSE
    /\ pixmap = NullPixmap
    /\ viewer_text = ""
    /\ selection_rect = NullRect
    /\ start_point = NullPoint
    /\ is_selecting = FALSE
    \* a run that crashed may have left a temporary PNG behind
    /\ files \in {{}, {TempPng(1)}}
    /\ handler = "init"
    /\ rendered = "none"
    /\ output_path = NoDialog
    /\ command = NoCommand
    /\ status = ""

\* ------------------------------------------------------------------------
\* MainWindow's methods, as functions of the window record
\* ------------------------------------------------------------------------

\* display_error: the viewer is cleared and shows the message
display_error(s, message) ==
    [s EXCEPT !.pixmap = NullPixmap, !.viewer_text = message]

\* The file names cleanup_temp_files removes
IsTempFile(f) == f.base = temp_image_base /\ f.ext = ".png"

cleanup_temp_files(s) ==
    [s EXCEPT !.files = {f \in s.files : ~IsTempFile(f)}]

\* The loop of get_pdf_info over the "Pages:" lines: int() of a field that
\* is no number raises ValueError, which nothing catches.
RECURSIVE ScanPages(_, _)
ScanPages(fields, total) ==
    IF fields = <<>> THEN [total |-> total, raised |-> FALSE]
    ELSE IF ~Head(fields).int THEN [total |-> total, raised |-> TRUE]
    ELSE ScanPages(Tail(fields), Head(fields).val)

\* get_pdf_info: [s |-> the window after it, result |-> "true", "false",
\* or "raised" when an exception leaves the handler]
get_pdf_info(s, tool) ==
    IF tool = "missing"
    THEN [s |-> display_error(s, "pdfinfo_not_found"), result |-> "false"]
    ELSE IF PdfInfoFails(s.pdf_path)
    THEN [s |-> display_error(s, "get_info_failed"), result |-> "false"]
    ELSE LET scan == ScanPages(PagesFields(s.pdf_path), s.total_pages)
         IN [s |-> [s EXCEPT !.total_pages = scan.total],
             result |-> IF scan.raised THEN "raised" ELSE "true"]

\* update_page_size
update_page_size(s, size) ==
    [s EXCEPT !.page_size_points =
        IF size = "match" THEN PageSizePts(s.pdf_path, s.current_page + 1)
        ELSE <<0, 0>>]

\* update_ui_state
update_ui_state(s) ==
    [s EXCEPT !.btn_prev = s.current_page > 0,
              !.btn_next = s.current_page < s.total_pages - 1,
              !.btn_save = TRUE]

\* The run of pdftoppm: the files after it
RunPdftoppm(s, ppm) ==
    [s EXCEPT !.files =
        IF ppm \in {"ok", "error_partial"}
        THEN s.files \cup {TempPng(s.current_page + 1)} ELSE s.files]

\* The try block of render_page after the run of pdftoppm
LoadRendered(s, ppm, load) ==
    IF ppm \in {"ok", "nofile"}
    THEN IF TempPng(s.current_page + 1) \in s.files
         THEN update_ui_state(
                [s EXCEPT !.pixmap = IF load = "image"
                                     THEN PagePixmap(s.pdf_path, s.current_page + 1)
                                     ELSE NullPixmap,
                          !.viewer_text = "",
                          !.rendered = "ok"])
         ELSE [display_error(s, "render_failed") EXCEPT !.rendered = "failed"]
    ELSE [display_error(s, "render_failed") EXCEPT !.rendered = "failed"]

\* render_page without its finally clause.
render_page_no_finally(s, r) ==
    IF s.pdf_path = None THEN s
    ELSE LoadRendered(
           RunPdftoppm(cleanup_temp_files(update_page_size(s, r.size)), r.ppm),
           r.ppm, r.load)

\* render_page
render_page(s, r) ==
    IF s.pdf_path = None THEN s
    ELSE cleanup_temp_files(
           LoadRendered(
             RunPdftoppm(cleanup_temp_files(update_page_size(s, r.size)), r.ppm),
             r.ppm, r.load))

\* open_pdf, for the path the file dialog returned
open_pdf(s, path, tool, r) ==
    IF path = "" THEN s
    ELSE LET info == get_pdf_info([s EXCEPT !.pdf_path = path, !.current_page = 0],
                                  tool)
         IN IF info.result = "true" THEN render_page(info.s, r)
            ELSE info.s

\* prev_page
prev_page(s, r) ==
    IF s.current_page > 0
    THEN render_page([s EXCEPT !.current_page = s.current_page - 1], r)
    ELSE s

\* next_page with its bound off by one.
next_page_off_by_one(s, r) ==
    IF s.current_page < s.total_pages
    THEN render_page([s EXCEPT !.current_page = s.current_page + 1], r)
    ELSE s

\* next_page
next_page(s, r) ==
    IF s.current_page < s.total_pages - 1
    THEN render_page([s EXCEPT !.current_page = s.current_page + 1], r)
    ELSE s

\* save_svg without the test of the selection's height.
save_svg_no_height_check(s, selection, out, cairo) ==
    IF RectIsNull(selection) \/ RectWidth(selection) < 2
    THEN [command |-> NoCommand, status |-> "select_region", asked |-> FALSE]
    ELSE IF out = ""
    THEN [command |-> NoCommand, status |-> "", asked |-> TRUE]
    ELSE IF s.pixmap.null
    THEN [command |-> NoCommand, status |-> "no_page", asked |-> TRUE]
    ELSE IF s.pixmap.w = 0 \/ s.pixmap.h = 0
    THEN [command |-> NoCommand, status |-> "invalid_dims", asked |-> TRUE]
    ELSE [command |->
            [f |-> s.current_page + 1, l |-> s.current_page + 1,
             x |-> ToPoints(selection.x1, s.page_size_points[1], s.pixmap.w),
             y |-> ToPoints(selection.y1, s.page_size_points[2], s.pixmap.h),
             W |-> ToPoints(RectWidth(selection), s.page_size_points[1], s.pixmap.w),
             H |-> ToPoints(RectHeight(selection), s.page_size_points[2], s.pixmap.h),
             path |-> s.pdf_path, out |-> out],
          status |-> CASE cairo = "ok"       -> "saved"
                       [] cairo = "warnings" -> "saved_with_warnings"
                       [] cairo = "error"    -> "error_saving"
                       [] OTHER              -> "pdftocairo_not_found",
          asked |-> TRUE]

\* save_svg: [command |-> the pdftocairo command it runs, if any,
\* status |-> the status bar message it shows, if any, asked |-> whether
\* it showed the save dialog]
save_svg(s, selection, out, cairo) ==
    IF RectIsNull(selection) \/ RectWidth(selection) < 2 \/ RectHeight(selection) < 2
    THEN [command |-> NoCommand, status |-> "select_region", asked |-> FALSE]
    ELSE IF out = ""
    THEN [command |-> NoCommand, status |-> "", asked |-> TRUE]
    ELSE IF s.pixmap.null
    THEN [command |-> NoCommand, status |-> "no_page", asked |-> TRUE]
    ELSE IF s.pixmap.w = 0 \/ s.pixmap.h = 0
    THEN [command |-> NoCommand, status |-> "invalid_dims", asked |-> TRUE]
    ELSE [command |->
            [f |-> s.current_page + 1, l |-> s.current_page + 1,
             x |-> ToPoints(selection.x1, s.page_size_points[1], s.pixmap.w),
             y |-> ToPoints(selection.y1, s.page_size_points[2], s.pixmap.h),
             W |-> ToPoints(RectWidth(selection), s.page_size_points[1], s.pixmap.w),
             H |-> ToPoints(RectHeight(selection), s.page_size_points[2], s.pixmap.h),
             path |-> s.pdf_path, out |-> out],
          status |-> CASE cairo = "ok"       -> "saved"
                       [] cairo = "warnings" -> "saved_with_warnings"
                       [] cairo = "error"    -> "error_saving"
                       [] OTHER              -> "pdftocairo_not_found",
          asked |-> TRUE]

\* ------------------------------------------------------------------------
\* Actions: one per event handler.  A button delivers clicked only while it
\* is enabled; nothing runs once the window is closed.
\* ------------------------------------------------------------------------

Open == handler # "close"

\* The outcomes of one render cycle: of the size query, of pdftoppm and,
\* when pdftoppm wrote the PNG, of loading it.
RenderInputs ==
    {r \in [size : {"match", "nomatch", "fail"},
            ppm  : {"ok", "nofile", "error", "error_partial"},
            load : LoadOutcomes] : r.ppm # "ok" => r.load = "image"}

\* The outcomes a render of a page (1-based) of a document can have
RenderOutcomes(path, page) ==
    {r \in RenderInputs : /\ r.size \in SizeOutcomes(path, page)
                          /\ r.ppm \in PpmOutcomes(path, page)}

NoRender == [size |-> "fail", ppm |-> "error", load |-> "image"]

Observed(name) ==
    /\ handler' = name
    /\ output_path' = NoDialog
    /\ command' = NoCommand
    /\ status' = ""

\* A handler that may call render_page: the outcomes of the render are
\* drawn when it does, for the page it renders.
OpenPdf ==
    /\ Open
    /\ \E path \in Docs \cup {""}, tool \in ToolOutcomes :
          LET probe == open_pdf(Window, path, tool, NoRender)
          IN IF probe.rendered = "none" THEN Becomes(probe)
             ELSE \E r \in RenderOutcomes(probe.pdf_path, probe.current_page + 1) :
                     Becomes(open_pdf(Window, path, tool, r))
    /\ Observed("open")
    /\ UNCHANGED sel_vars

PrevPage ==
    /\ Open
    /\ btn_prev
    /\ LET probe == prev_page(Window, NoRender)
       IN IF probe.rendered = "none" THEN Becomes(probe)
          ELSE \E r \in RenderOutcomes(probe.pdf_path, probe.current_page + 1) :
                  Becomes(prev_page(Window, r))
    /\ Observed("prev")
    /\ UNCHANGED sel_vars

NextPage ==
    /\ Open
    /\ btn_next
    /\ LET probe == next_page(Window, NoRender)
       IN IF probe.rendered = "none" THEN Becomes(probe)
          ELSE \E r \in RenderOutcomes(probe.pdf_path, probe.current_page + 1) :
                  Becomes(next_page(Window, r))
    /\ Observed("next")
    /\ UNCHANGED sel_vars

SaveSvg ==
    /\ Open
    /\ btn_save
    /\ \E out \in OutputPaths, cairo \in CairoOutcomes :
          LET r == save_svg(Window, selection_rect, out, cairo)
          IN /\ command' = r.command
             /\ status' = r.status
             /\ output_path' = IF r.asked THEN out ELSE NoDialog
    /\ handler' = "save"
    /\ rendered' = "none"
    /\ UNCHANGED <<win_vars, sel_vars>>

\* mousePressEvent
MousePress ==
    /\ Open
    /\ \E button \in Buttons, pos \in Points :
          IF button = "left"
          THEN /\ start_point' = pos
               /\ selection_rect' = RectOfInvalidSize(pos)
               /\ is_selecting' = TRUE
          ELSE UNCHANGED sel_vars
    /\ Observed("mouse")
    /\ rendered' = "none"
    /\ UNCHANGED win_vars

\* mouseMoveEvent
MouseMove ==
    /\ Open
    /\ \E pos \in Points :
          IF is_selecting
          THEN /\ selection_rect' = Normalized(RectOfCorners(start_point, pos))
               /\ UNCHANGED <<start_point, is_selecting>>
          ELSE UNCHANGED sel_vars
    /\ Observed("mouse")
    /\ rendered' = "none"
    /\ UNCHANGED win_vars

\* mouseReleaseEvent
MouseRelease ==
    /\ Open
    /\ \E button \in Buttons :
          IF button = "left" /\ is_selecting
          THEN /\ is_selecting' = FALSE
               /\ UNCHANGED <<selection_rect, start_point>>
          ELSE UNCHANGED sel_vars
    /\ Observed("mouse")
    /\ rendered' = "none"
    /\ UNCHANGED win_vars

\* closeEvent
CloseEvent ==
    /\ Open
    /\ Becomes(cleanup_temp_files(Window))
    /\ Observed("close")
    /\ UNCHANGED sel_vars

Next ==
    \/ OpenPdf
    \/ PrevPage
    \/ NextPage
    \/ SaveSvg
    \/ MousePress
    \/ MouseMove
    \/ MouseRelease
    \/ CloseEvent

Spec == Init /\ [][Next]_vars

\* ------------------------------------------------------------------------
\* Properties
\* ------------------------------------------------------------------------

NavHandlers == {"prev", "next"}

RenderHandlers == {"open", "prev", "next"}

\* truncation toward zero of n / d, for d > 0
TruncDiv(n, d) == Sign(n) * (Abs(n) \div d)

\* C1: Previous at index 0 and Next at (or, for an empty page range, past)
\* the last index leave current_page alone and call no render_page;
\* otherwise Previous decrements and Next increments current_page by exactly
\* 1 and render_page runs; the index they move to lies in
\* [0, total_pages - 1].
C1_NavigationStep ==
    [][/\ handler' = "prev" =>
            IF current_page = 0
            THEN current_page' = current_page /\ rendered' = "none"
            ELSE current_page' = current_page - 1 /\ rendered' # "none"
       /\ handler' = "next" =>
            IF current_page >= total_pages - 1
            THEN current_page' = current_page /\ rendered' = "none"
            ELSE current_page' = current_page + 1 /\ rendered' # "none"
       /\ (handler' \in NavHandlers /\ current_page' # current_page) =>
            current_page' \in 0..(total_pages' - 1)]_vars

\* Next was clicked on the last page of the longest document (its button
\* was left enabled by a failed render) and did nothing.
C1_Witness ==
    /\ handler = "next"
    /\ rendered = "none"
    /\ total_pages = MaxPages
    /\ current_page = total_pages - 1

\* C2: between handlers, Previous is enabled exactly when current_page > 0
\* and Next exactly when current_page < total_pages - 1.
C2_ButtonsMatchIndex ==
    /\ btn_prev = (current_page > 0)
    /\ btn_next = (current_page < total_pages - 1)

\* The guards of the export: a selection of at least 2 x 2 pixels and a
\* displayed raster of non-zero width and height.
ExportGuards ==
    /\ RectWidth(selection_rect) >= 2
    /\ RectHeight(selection_rect) >= 2
    /\ ~pixmap.null
    /\ pixmap.w # 0
    /\ pixmap.h # 0

C4_ZeroPageSizeBlocksExport ==
    (handler = "save" /\ page_size_points = <<0, 0>>) => command = NoCommand

\* The geometry arguments of a command, with the pixel value, the page
\* dimension and the pixmap dimension each comes from.
Geometry ==
    {<<command.x, selection_rect.x1, page_size_points[1], pixmap.w>>,
     <<command.y, selection_rect.y1, page_size_points[2], pixmap.h>>,
     <<command.W, RectWidth(selection_rect), page_size_points[1], pixmap.w>>,
     <<command.H, RectHeight(selection_rect), page_size_points[2], pixmap.h>>}

ScenarioState ==
    /\ page_size_points = <<612, 792>>
    /\ pixmap.w = 1275
    /\ pixmap.h = 1650
    /\ selection_rect = Rect(100, 100, 200, 200)

ScenarioExport ==
    ScenarioState =>
        (command.x = 48 /\ command.y = 48 /\ command.W = 48 /\ command.H = 48)

C6_SelectionDiscardedOnRender ==
    (handler \in RenderHandlers /\ rendered # "none") => RectIsNull(selection_rect)

\* C7: a failed render by Previous/Next shows an error and leaves
\* current_page, page_size_points, the raster and the button states as they
\* were before the click.
C7_FailedRenderKeepsState ==
    [][(handler' \in NavHandlers /\ rendered' = "failed") =>
          /\ viewer_text' # ""
          /\ current_page' = current_page
          /\ page_size_points' = page_size_points
          /\ pixmap' = pixmap
          /\ btn_prev' = btn_prev
          /\ btn_next' = btn_next]_vars

C9_IndexWithinDocument ==
    pdf_path # None =>
        /\ total_pages = PageCount(pdf_path)
        /\ 0 <= current_page
        /\ current_page < total_pages

\* C10: a pdftocairo command names the document and page the displayed
\* raster depicts, with page_size_points queried for that page; a failed
\* render or a failed open leaves no raster displayed.
C10_ExportMatchesRaster ==
    /\ command # NoCommand =>
          /\ pixmap.path = command.path
          /\ pixmap.page = command.f
          /\ page_size_points \in {PageSizePts(command.path, command.f), <<0, 0>>}
    /\ (handler \in RenderHandlers /\ rendered = "failed") => pixmap.null
    /\ (handler = "open" /\ rendered = "none" /\ pdf_path # None) =>
          (pixmap.null \/ (pixmap.path = pdf_path /\ pixmap.page = current_page + 1))

=============================================================================
